---- MODULE Spec2Model ----
(***************************************************************************)
(* Model of switchyard/llnetreal.py: the LLNetReal facade (one capture     *)
(* thread per pcap device, the shared packet queue, the class-level        *)
(* running flag, the signal handler, recv_packet, send_packet, shutdown).  *)
(*                                                                         *)
(* Threads: the main thread runs the user's calls (recv_packet,            *)
(* send_packet, shutdown); Python runs signal handlers in the main thread  *)
(* between two of its bytecodes, so while a handler is active (hpc #       *)
(* "none") the main thread's own steps are suspended.  Each capture thread *)
(* runs __low_level_dispatch concurrently.  An operation on the Queue       *)
(* (put, get, qsize) is one atomic step.                                   *)
(***************************************************************************)
EXTENDS Integers, Sequences, FiniteSets, TLC

\* ---------------------------------------------------------------- bounds
\* frames the devices deliver to their capture threads over a run, all together
MaxCap == 2

\* ------------------------------------------------------- configuration
\* devlist given to the constructor: two interfaces
Devs == {"eth0", "eth1"}
\* a name send_packet may be given for which no pcap device exists
BadDev == "baddev"
\* Python's None, for a device name or a link type
None == "None"
\* pktinfo None (third field of the dummy entry)
NoPktInfo == << >>

\* link types a PcapLiveDevice may report (pcapdev.dlt); the last one has no decoder
Dlts == {"DLT_EN10MB", "DLT_NULL", "DLT_IEEE802_11"}
\* the link types of the two devices, in the configurations explored
DevDlts == { [d \in Devs |-> IF d = "eth0" THEN "DLT_EN10MB" ELSE "DLT_IEEE802_11"],
             [d \in Devs |-> IF d = "eth0" THEN "DLT_NULL" ELSE "DLT_EN10MB"] }

\* signals the constructor registers _sig_handler for
RegisteredSignals == {"SIGINT", "SIGTERM", "SIGHUP", "SIGUSR1", "SIGUSR2"}
\* the interrupt and termination signals among them: the signals delivered in
\* the runs explored (SIGHUP, SIGUSR1 and SIGUSR2 take the handler's same path
\* as SIGTERM)
IntTermSignals == {"SIGINT", "SIGTERM"}

\* timeout arguments of recv_packet: None (block) or a number >= 0
Timeouts == {None, "0.05"}

\* packet arguments of send_packet: a Packet, None, or an object that is no Packet
PacketArgs == {"Packet", None, "bytes"}

\* -------------------------------------------------------- pure helpers
\* _dlt_to_decoder: link type -> first header of the decoder registered for it
dlt_to_decoder == [dlt \in {"DLT_EN10MB", "DLT_NULL"} |->
                     IF dlt = "DLT_EN10MB" THEN "Ethernet" ELSE "Null"]

\* _dlt_to_decoder.get(dlt, None) is not None
HasDecoder(dlt) == dlt \in DOMAIN dlt_to_decoder

\* decoder(pktinfo.raw): Packet(raw, first_header=...)
Decode(dlt, raw) == <<dlt_to_decoder[dlt], raw>>

\* the capture record pcapdev.recv_packet returns: (timestamp, raw)
PktInfo(ts, raw) == <<ts, raw>>
Timestamp(pktinfo) == pktinfo[1]
Raw(pktinfo) == pktinfo[2]

\* a queue entry (devname, dlt, pktinfo)
Entry(dev, dlt, pktinfo) == [dev |-> dev, dlt |-> dlt, pktinfo |-> pktinfo]
\* the dummy entry (None, None, None) the signal handler puts
Sentinel == Entry(None, None, NoPktInfo)

\* the locals dev, dlt, pktinfo of recv_packet while they hold nothing
NoEntry == Entry("", "", NoPktInfo)

\* what a call of the facade gave its caller
Result(kind, ts, dev, packet) ==
    [kind |-> kind, timestamp |-> ts, ingress_dev |-> dev, packet |-> packet]
NoResult == Result("none", 0, None, << >>)
Raised(exc) == Result(exc, 0, None, << >>)
Returned == Result("return", 0, None, << >>)
\* ReceivedPacket(timestamp=pktinfo.timestamp, ingress_dev=dev, packet=pkt)
ReceivedPacket(ts, dev, pkt) == Result("ReceivedPacket", ts, dev, pkt)

\* ---------------------------------------------------------------- state
\* the second LLNetReal before it is constructed
NoSecond == [built |-> FALSE, hopen |-> FALSE, nclose |-> 0, wpc |-> "new"]

\* main_real when the facade is used without it
NoMainReal == [pc |-> "off", path |-> "none", nshutdown |-> 0]

VARIABLES
    running,    \* LLNetReal.running
    pktqueue,   \* self._pktqueue, head first
    devdlt,     \* pcapdev.dlt of each device
    hopen,      \* each PcapLiveDevice: TRUE until close()
    nclose,     \* close() calls made on each device (2 = more than once)
    wpc,        \* position of each capture thread in __low_level_dispatch
    ncap,       \* frames each device has delivered so far
    pc,         \* position of the main thread
    rtimeout,   \* timeout argument of the recv_packet in progress
    entry,      \* (dev, dlt, pktinfo) locals of recv_packet
    hpc,        \* position of the signal handler running in the main thread
    hsig,       \* signum argument of the handler, until it has been tested
    intseen,    \* "handled": a SIGINT has been handled and recv_packet not called
                \* since; "next": the recv_packet call in progress (or the last
                \* one) is the first made after a handled SIGINT; else "no"
    lastcall,   \* last facade method the user code called
    res,        \* what that call gave its caller
    closeduse,  \* operations invoked on a device after its close(): <<op, dev>>
    sends,      \* devices that call invoked pdev.send_packet on, in order
    cpc,        \* position of __init__ ("done": the facade is constructed)
    mainreal,   \* main_real: its position, the way it went and the calls of
                \* netobj.shutdown() it has made
    second,     \* a second LLNetReal of the process: its capture thread, its
                \* pcap device and the close() calls made on it
    history,    \* TRUE in the specification that keeps the two histories below
    lastret,    \* timestamp of the last frame of each device that recv_packet
                \* returned (0: none yet)
    latepush    \* entries each capture thread put with the flag false

vars == <<running, pktqueue, devdlt, hopen, nclose, wpc, ncap, pc,
          rtimeout, entry, hpc, hsig, intseen, lastcall, res, closeduse,
          sends, cpc, mainreal, second, history, lastret, latepush>>

\* the variables of the capture threads
wvars == <<wpc, ncap, latepush>>
\* the variables of the main thread's call in progress
mvars == <<pc, rtimeout, entry, lastcall, res, sends, lastret>>
\* the variables of signal delivery
svars == <<hpc, hsig>>

\* a device operation op on dev: remembered when the device is already closed
UseDevice(op, dev) ==
    IF hopen[dev] THEN closeduse ELSE closeduse \cup {<<op, dev>>}

\* ------------------------------------------------------------ Init
\* the state __init__ leaves: devices open, flag set, queue empty, threads started
Init ==
    /\ running = TRUE
    /\ pktqueue = << >>
    /\ devdlt \in DevDlts
    /\ hopen = [d \in Devs |-> TRUE]
    /\ nclose = [d \in Devs |-> 0]
    /\ wpc = [d \in Devs |-> "while"]
    /\ ncap = [d \in Devs |-> 0]
    /\ pc = "idle"
    /\ rtimeout = None
    /\ entry = NoEntry
    /\ hpc = "none"
    /\ hsig = None
    /\ intseen = "no"
    /\ lastcall = "none"
    /\ res = NoResult
    /\ closeduse = {}
    /\ sends = << >>
    /\ cpc = "done"
    /\ mainreal = NoMainReal
    /\ second = NoSecond
    /\ history = FALSE
    /\ lastret = [d \in Devs |-> 0]
    /\ latepush = [d \in Devs |-> 0]

\* a capture thread whose loop does not test the flag
WorkerWhile_IgnoreFlag(d) ==
    /\ wpc[d] = "while"
    /\ wpc' = [wpc EXCEPT ![d] = "recv"]
    /\ UNCHANGED <<running, pktqueue, devdlt, mainreal, history, cpc, second,
                   hopen, nclose, ncap, latepush, mvars, svars, closeduse,
                   intseen>>

\* ------------------------------------------- __low_level_dispatch
\* while LLNetReal.running:
WorkerWhile(d) ==
    /\ wpc[d] = "while"
    /\ wpc' = [wpc EXCEPT ![d] = IF running THEN "recv" ELSE "stats"]
    /\ UNCHANGED <<running, pktqueue, devdlt, mainreal, history, cpc, second,
                   hopen, nclose, ncap, mvars, svars, closeduse, intseen,
                   latepush>>

\* frames delivered so far, all devices together
RECURSIVE SumOver(_, _)
SumOver(f, S) ==
    IF S = {} THEN 0
    ELSE LET d == CHOOSE x \in S : TRUE IN f[d] + SumOver(f, S \ {d})
Captured == SumOver(ncap, Devs)

\* pktinfo = pcapdev.recv_packet(timeout=0.2): the poll ends with no frame
\* (if pktinfo is None: continue)
WorkerRecvNone(d) ==
    /\ wpc[d] = "recv"
    /\ closeduse' = UseDevice("recv_packet", d)
    /\ wpc' = [wpc EXCEPT ![d] = "while"]
    /\ UNCHANGED <<running, pktqueue, devdlt, mainreal, history, cpc, second,
                   hopen, nclose, ncap, mvars, svars, intseen, latepush>>

\* a capture thread that puts its entry at the head of the queue
WorkerRecvPut_Prepend(d) ==
    /\ wpc[d] = "recv"
    /\ Captured < MaxCap
    /\ closeduse' = UseDevice("recv_packet", d)
    /\ ncap' = [ncap EXCEPT ![d] = @ + 1]
    /\ pktqueue' = <<Entry(d, devdlt[d],
                           PktInfo(ncap[d] + 1, <<d, ncap[d] + 1>>))>> \o pktqueue
    /\ latepush' = IF history /\ ~running
                     THEN [latepush EXCEPT ![d] = @ + 1]
                     ELSE latepush
    /\ wpc' = [wpc EXCEPT ![d] = "while"]
    /\ UNCHANGED <<running, devdlt, mainreal, history, cpc, second, hopen,
                   nclose, mvars, svars, intseen>>

\* a capture thread that polls again after a put without testing the flag
WorkerRecvPut_PollAgain(d) ==
    /\ wpc[d] = "recv"
    /\ Captured < MaxCap
    /\ closeduse' = UseDevice("recv_packet", d)
    /\ ncap' = [ncap EXCEPT ![d] = @ + 1]
    /\ pktqueue' = Append(pktqueue,
                     Entry(d, devdlt[d], PktInfo(ncap[d] + 1, <<d, ncap[d] + 1>>)))
    /\ latepush' = IF history /\ ~running
                     THEN [latepush EXCEPT ![d] = @ + 1]
                     ELSE latepush
    /\ wpc' = wpc
    /\ UNCHANGED <<running, devdlt, mainreal, history, cpc, second, hopen,
                   nclose, mvars, svars, intseen>>

\* the poll ends with a frame: pktqueue.put( (devname,pcapdev.dlt,pktinfo) ).
\* The put follows the poll unconditionally and nothing else of the thread
\* lies between them, so the two are one step, taken at the time of the put.
WorkerRecvPut(d) ==
    /\ wpc[d] = "recv"
    /\ Captured < MaxCap
    /\ closeduse' = UseDevice("recv_packet", d)
    /\ ncap' = [ncap EXCEPT ![d] = @ + 1]
    /\ pktqueue' = Append(pktqueue,
                     Entry(d, devdlt[d], PktInfo(ncap[d] + 1, <<d, ncap[d] + 1>>)))
    /\ latepush' = IF history /\ ~running
                     THEN [latepush EXCEPT ![d] = @ + 1]
                     ELSE latepush
    /\ wpc' = [wpc EXCEPT ![d] = "while"]
    /\ UNCHANGED <<running, devdlt, mainreal, history, cpc, second, hopen,
                   nclose, mvars, svars, intseen>>

\* stats = pcapdev.stats(), then the thread ends
WorkerStats(d) ==
    /\ wpc[d] = "stats"
    /\ closeduse' = UseDevice("stats", d)
    /\ wpc' = [wpc EXCEPT ![d] = "done"]
    /\ UNCHANGED <<running, pktqueue, devdlt, mainreal, history, cpc, second,
                   hopen, nclose, ncap, mvars, svars, intseen, latepush>>

Worker(d) ==
    WorkerWhile(d) \/ WorkerRecvNone(d) \/ WorkerRecvPut(d) \/ WorkerStats(d)

\* a capture thread is alive from its start until it has run to its end
Alive(d) == wpc[d] \notin {"new", "done"}

\* ------------------------------------------------------- recv_packet
\* the user code calls recv_packet(timeout)
RecvCall(t) ==
    /\ cpc = "done" /\ pc = "idle" /\ hpc = "none"
    /\ pc' = "get"
    /\ rtimeout' = t
    /\ lastcall' = "recv_packet"
    /\ sends' = << >>
    /\ res' = NoResult
    /\ intseen' = IF intseen = "handled" THEN "next" ELSE "no"
    /\ UNCHANGED <<running, pktqueue, devdlt, mainreal, history, cpc, second,
                   hopen, nclose, wvars, entry, svars, closeduse, lastret>>

\* a get that leaves the entry it hands out on the queue
RecvGet_Peek ==
    /\ pc = "get" /\ hpc = "none"
    /\ pktqueue # << >>
    /\ entry' = Head(pktqueue)
    /\ pktqueue' = pktqueue
    /\ pc' = "flag"
    /\ UNCHANGED <<running, devdlt, mainreal, history, cpc, second, hopen,
                   nclose, wvars, rtimeout, lastcall, res, svars, closeduse,
                   intseen, sends, lastret>>

\* dev,dlt,pktinfo = self._pktqueue.get(timeout=timeout), an entry is there
RecvGet ==
    /\ pc = "get" /\ hpc = "none"
    /\ pktqueue # << >>
    /\ entry' = Head(pktqueue)
    /\ pktqueue' = Tail(pktqueue)
    /\ pc' = "flag"
    /\ UNCHANGED <<running, devdlt, mainreal, history, cpc, second, hopen,
                   nclose, wvars, rtimeout, lastcall, res, svars, closeduse,
                   intseen, sends, lastret>>

\* the get times out: queue.Empty is raised (never when timeout is None)
RecvTimeout ==
    /\ pc = "get" /\ hpc = "none"
    /\ pktqueue = << >>
    /\ rtimeout # None
    /\ pc' = "except"
    /\ UNCHANGED <<running, pktqueue, devdlt, mainreal, history, cpc, second,
                   hopen, nclose, wvars, rtimeout, entry, lastcall, res,
                   svars, closeduse, intseen, sends, lastret>>

\* a recv_packet that raises Shutdown only for the dummy entry
RecvFlag_SentinelOnly ==
    /\ pc = "flag" /\ hpc = "none"
    /\ IF ~running /\ entry = Sentinel
         THEN /\ res' = Raised("Shutdown")
              /\ pc' = "idle"
              /\ rtimeout' = None
         ELSE IF ~HasDecoder(entry.dlt)
           THEN /\ res' = res
                /\ pc' = "get"
                /\ rtimeout' = rtimeout
           ELSE /\ res' = ReceivedPacket(Timestamp(entry.pktinfo), entry.dev,
                                         Decode(entry.dlt, Raw(entry.pktinfo)))
                /\ pc' = "idle"
                /\ rtimeout' = None
    /\ lastret' = IF history /\ res'.kind = "ReceivedPacket"
                  THEN [lastret EXCEPT ![res'.ingress_dev] = res'.timestamp]
                  ELSE lastret
    /\ entry' = NoEntry
    /\ UNCHANGED <<running, pktqueue, devdlt, mainreal, history, cpc, second,
                   hopen, nclose, wvars, lastcall, svars, closeduse, intseen,
                   sends>>

\* a recv_packet that gives up on an entry it has no decoder for
RecvFlag_NoSkip ==
    /\ pc = "flag" /\ hpc = "none"
    /\ IF ~running
         THEN res' = Raised("Shutdown")
         ELSE IF ~HasDecoder(entry.dlt)
           THEN res' = Raised("NoPackets")
           ELSE res' = ReceivedPacket(Timestamp(entry.pktinfo), entry.dev,
                                      Decode(entry.dlt, Raw(entry.pktinfo)))
    /\ pc' = "idle"
    /\ rtimeout' = None
    /\ lastret' = IF history /\ res'.kind = "ReceivedPacket"
                  THEN [lastret EXCEPT ![res'.ingress_dev] = res'.timestamp]
                  ELSE lastret
    /\ entry' = NoEntry
    /\ UNCHANGED <<running, pktqueue, devdlt, mainreal, history, cpc, second,
                   hopen, nclose, wvars, lastcall, svars, closeduse, intseen,
                   sends>>

\* if not LLNetReal.running: break (then raise Shutdown()); else the decoder
\* lookup: continue when there is none, return ReceivedPacket otherwise
RecvFlag ==
    /\ pc = "flag" /\ hpc = "none"
    /\ IF ~running
         THEN /\ res' = Raised("Shutdown")
              /\ pc' = "idle"
              /\ rtimeout' = None
         ELSE IF ~HasDecoder(entry.dlt)
           THEN /\ res' = res
                /\ pc' = "get"
                /\ rtimeout' = rtimeout
           ELSE /\ res' = ReceivedPacket(Timestamp(entry.pktinfo), entry.dev,
                                         Decode(entry.dlt, Raw(entry.pktinfo)))
                /\ pc' = "idle"
                /\ rtimeout' = None
    /\ lastret' = IF history /\ res'.kind = "ReceivedPacket"
                  THEN [lastret EXCEPT ![res'.ingress_dev] = res'.timestamp]
                  ELSE lastret
    /\ entry' = NoEntry
    /\ UNCHANGED <<running, pktqueue, devdlt, mainreal, history, cpc, second,
                   hopen, nclose, wvars, lastcall, svars, closeduse, intseen,
                   sends>>

\* an except clause that does not look at the flag
RecvExcept_NoFlagCheck ==
    /\ pc = "except" /\ hpc = "none"
    /\ res' = Raised("NoPackets")
    /\ pc' = "idle"
    /\ rtimeout' = None
    /\ UNCHANGED <<running, pktqueue, devdlt, mainreal, history, cpc, second,
                   hopen, nclose, wvars, entry, lastcall, svars, closeduse,
                   intseen, sends, lastret>>

\* except Empty: if not LLNetReal.running: raise Shutdown(); raise NoPackets()
RecvExcept ==
    /\ pc = "except" /\ hpc = "none"
    /\ res' = IF ~running THEN Raised("Shutdown") ELSE Raised("NoPackets")
    /\ pc' = "idle"
    /\ rtimeout' = None
    /\ UNCHANGED <<running, pktqueue, devdlt, mainreal, history, cpc, second,
                   hopen, nclose, wvars, entry, lastcall, svars, closeduse,
                   intseen, sends, lastret>>

\* ------------------------------------------------------- send_packet
\* self._pcaps.get(dev, None): the devices made by __make_pcaps stay in the
\* dictionary for the life of the facade
HasPcap(dev) == dev \in Devs

\* Interface.ifnum of each device (if_nametoindex(devname))
ifnum == [d \in Devs |-> IF d = "eth0" THEN 2 ELSE 3]

\* the device arguments send_packet is given: a name, an interface number
\* or an Interface object
StrRef(name) == [kind |-> "str", name |-> name, ifnum |-> -1]
IntRef(n) == [kind |-> "int", name |-> None, ifnum |-> n]
InterfaceRef(name) == [kind |-> "Interface", name |-> name, ifnum |-> ifnum[name]]
DevRefs ==
    {StrRef(n) : n \in Devs \cup {BadDev}}
        \cup {IntRef(ifnum[d]) : d \in Devs}
        \cup {InterfaceRef(d) : d \in Devs}

\* LLNetBase._lookup_devname: the name of the device with that number
lookup_devname(n) == CHOOSE d \in Devs : ifnum[d] = n

\* the name send_packet makes of its device argument
DevName(dev) ==
    IF dev.kind = "int" THEN lookup_devname(dev.ifnum) ELSE dev.name

\* a send_packet that makes a second attempt when the device's send fails
SendPacket_Retry(dev, packet) ==
    /\ cpc = "done" /\ pc = "idle" /\ hpc = "none"
    /\ lastcall' = "send_packet"
    /\ LET name == DevName(dev) IN
       IF ~HasPcap(name) \/ packet # "Packet"
         THEN /\ res' = Raised("SwitchyException")
              /\ sends' = << >>
              /\ closeduse' = closeduse
         ELSE /\ \/ res' = Returned /\ sends' = <<name>>
                 \/ res' \in {Returned, Raised("PcapException")}
                      /\ sends' = <<name, name>>
              /\ closeduse' = UseDevice("send_packet", name)
    /\ UNCHANGED <<running, pktqueue, devdlt, mainreal, history, cpc, second,
                   hopen, nclose, wvars, pc, rtimeout, entry, svars, intseen,
                   lastret>>

\* a send_packet that tests the packet before the device
SendPacket_PacketFirst(dev, packet) ==
    /\ cpc = "done" /\ pc = "idle" /\ hpc = "none"
    /\ lastcall' = "send_packet"
    /\ LET name == DevName(dev) IN
       IF packet = None
         THEN /\ res' = Raised("SwitchyException: No packet object")
              /\ sends' = << >>
              /\ closeduse' = closeduse
         ELSE IF packet # "Packet"
           THEN /\ res' = Raised("SwitchyException: not a Packet")
                /\ sends' = << >>
                /\ closeduse' = closeduse
           ELSE IF ~HasPcap(name)
             THEN /\ res' = Raised("SwitchyException: Unrecognized device name")
                  /\ sends' = << >>
                  /\ closeduse' = closeduse
             ELSE /\ sends' = <<name>>
                  /\ res' \in {Returned, Raised("PcapException")}
                  /\ closeduse' = UseDevice("send_packet", name)
    /\ UNCHANGED <<running, pktqueue, devdlt, mainreal, history, cpc, second,
                   hopen, nclose, wvars, pc, rtimeout, entry, svars, intseen,
                   lastret>>

\* a send_packet that does not test the type of the packet
SendPacket_NoTypeCheck(dev, packet) ==
    /\ cpc = "done" /\ pc = "idle" /\ hpc = "none"
    /\ lastcall' = "send_packet"
    /\ LET name == DevName(dev) IN
       IF ~HasPcap(name)
         THEN /\ res' = Raised("SwitchyException: Unrecognized device name")
              /\ sends' = << >>
              /\ closeduse' = closeduse
         ELSE IF packet = None
           THEN /\ res' = Raised("SwitchyException: No packet object")
                /\ sends' = << >>
                /\ closeduse' = closeduse
           ELSE /\ sends' = <<name>>
                /\ res' \in {Returned, Raised("PcapException")}
                /\ closeduse' = UseDevice("send_packet", name)
    /\ UNCHANGED <<running, pktqueue, devdlt, mainreal, history, cpc, second,
                   hopen, nclose, wvars, pc, rtimeout, entry, svars, intseen,
                   lastret>>

\* the user code calls send_packet(dev, packet): the device argument is made
\* a name, the device is looked up, the packet is tested, and the packet's
\* bytes are handed to the device's send_packet, which may raise
SendPacket(dev, packet) ==
    /\ cpc = "done" /\ pc = "idle" /\ hpc = "none"
    /\ lastcall' = "send_packet"
    /\ LET name == DevName(dev) IN
       IF ~HasPcap(name)
         THEN /\ res' = Raised("SwitchyException: Unrecognized device name")
              /\ sends' = << >>
              /\ closeduse' = closeduse
         ELSE IF packet = None
           THEN /\ res' = Raised("SwitchyException: No packet object")
                /\ sends' = << >>
                /\ closeduse' = closeduse
           ELSE IF packet # "Packet"
             THEN /\ res' = Raised("SwitchyException: not a Packet")
                  /\ sends' = << >>
                  /\ closeduse' = closeduse
             ELSE /\ sends' = <<name>>
                  /\ res' \in {Returned, Raised("PcapException")}
                  /\ closeduse' = UseDevice("send_packet", name)
    /\ UNCHANGED <<running, pktqueue, devdlt, mainreal, history, cpc, second,
                   hopen, nclose, wvars, pc, rtimeout, entry, svars, intseen,
                   lastret>>

\* ---------------------------------------------------------- shutdown
\* a shutdown() without the early return on a cleared flag
ShutdownCall_NoEarlyReturn ==
    /\ cpc = "done" /\ pc = "idle" /\ hpc = "none"
    /\ lastcall' = "shutdown"
    /\ sends' = << >>
    /\ res' = NoResult
    /\ pc' = "sd_set"
    /\ UNCHANGED <<running, pktqueue, devdlt, mainreal, history, cpc, second,
                   hopen, nclose, wvars, rtimeout, entry, svars, closeduse,
                   intseen, lastret>>

\* the user code calls shutdown(): if not LLNetReal.running: return
ShutdownCall ==
    /\ cpc = "done" /\ pc = "idle" /\ hpc = "none"
    /\ lastcall' = "shutdown"
    /\ sends' = << >>
    /\ IF ~running
         THEN /\ res' = Returned
              /\ pc' = "idle"
         ELSE /\ res' = NoResult
              /\ pc' = "sd_set"
    /\ UNCHANGED <<running, pktqueue, devdlt, mainreal, history, cpc, second,
                   hopen, nclose, wvars, rtimeout, entry, svars, closeduse,
                   intseen, lastret>>

\* LLNetReal.running = False
ShutdownSet ==
    /\ pc = "sd_set" /\ hpc = "none"
    /\ running' = FALSE
    /\ pc' = "sd_join"
    /\ UNCHANGED <<pktqueue, devdlt, mainreal, history, cpc, second, hopen,
                   nclose, wvars, rtimeout, entry, lastcall, res, svars,
                   closeduse, intseen, sends, lastret>>

\* a join that does not wait for the thread
Joined_NoWait(d) == TRUE

\* t.join() returns once thread t has ended
Joined(d) == ~Alive(d)

\* for t in self._threads: t.join()
ShutdownJoin ==
    /\ pc = "sd_join" /\ hpc = "none"
    /\ \A d \in Devs : Joined(d)
    /\ pc' = "sd_close"
    /\ UNCHANGED <<running, pktqueue, devdlt, mainreal, history, cpc, second,
                   hopen, nclose, wvars, rtimeout, entry, lastcall, res,
                   svars, closeduse, intseen, sends, lastret>>

\* for devname,pdev in self._pcaps.items(): pdev.close(); then shutdown returns
ShutdownClose ==
    /\ pc = "sd_close" /\ hpc = "none"
    /\ hopen' = [d \in Devs |-> FALSE]
    /\ nclose' = [d \in Devs |-> IF nclose[d] < 2 THEN nclose[d] + 1 ELSE 2]
    /\ res' = Returned
    /\ pc' = "idle"
    /\ UNCHANGED <<running, pktqueue, devdlt, mainreal, history, cpc, second,
                   wvars, rtimeout, entry, lastcall, svars, closeduse,
                   intseen, sends, lastret>>

\* ------------------------------------------------------- _sig_handler
\* a signal the handler is registered for is delivered: _sig_handler(signum,
\* stack) starts in the main thread
Signal(sig) ==
    /\ cpc \notin {"start", "failed"}
    /\ hpc = "none"
    /\ hpc' = "entry"
    /\ hsig' = sig
    /\ UNCHANGED <<running, pktqueue, devdlt, mainreal, history, cpc, second,
                   hopen, nclose, wvars, mvars, closeduse, intseen>>

\* a handler that clears the flag whatever the signal is
HandlerEntry_AnySignal ==
    /\ hpc = "entry"
    /\ running' = FALSE
    /\ hpc' = "qsize"
    /\ hsig' = None
    /\ UNCHANGED <<pktqueue, devdlt, mainreal, history, cpc, second, hopen,
                   nclose, wvars, mvars, closeduse, intseen>>

\* if signum == signal.SIGINT: LLNetReal.running = False; any other signal is
\* logged and the handler returns
HandlerEntry ==
    /\ hpc = "entry"
    /\ IF hsig = "SIGINT"
         THEN /\ running' = FALSE
              /\ hpc' = "qsize"
         ELSE /\ running' = running
              /\ hpc' = "none"
    /\ hsig' = None
    /\ UNCHANGED <<pktqueue, devdlt, mainreal, history, cpc, second, hopen,
                   nclose, wvars, mvars, closeduse, intseen>>

\* self._pktqueue is a Queue once __spawn_threads has made it
QueueExists == cpc \in {"threads", "done"}

\* a handler that never puts the dummy entry
HandlerQsize_NoPut ==
    /\ hpc = "qsize"
    /\ hpc' = "none"
    /\ intseen' = "handled"
    /\ UNCHANGED <<running, pktqueue, devdlt, mainreal, history, cpc, second,
                   hopen, nclose, wvars, mvars, hsig, closeduse>>

\* if self._pktqueue.qsize() == 0: while __init__ has not made the queue,
\* self._pktqueue is None (or not there) and the test raises AttributeError,
\* which leaves the handler and ends __init__
HandlerQsize ==
    /\ hpc = "qsize"
    /\ IF ~QueueExists
         THEN /\ hpc' = "none"
              /\ cpc' = "failed"
              /\ intseen' = intseen
         ELSE /\ hpc' = IF Len(pktqueue) = 0 THEN "put" ELSE "none"
              /\ cpc' = cpc
              /\ intseen' = IF Len(pktqueue) = 0 THEN intseen ELSE "handled"
    /\ UNCHANGED <<running, pktqueue, devdlt, mainreal, history, second,
                   hopen, nclose, wvars, mvars, hsig, closeduse>>

\* self._pktqueue.put( (None,None,None) )
HandlerPut ==
    /\ hpc = "put"
    /\ pktqueue' = Append(pktqueue, Sentinel)
    /\ hpc' = "none"
    /\ intseen' = "handled"
    /\ UNCHANGED <<running, devdlt, mainreal, history, cpc, second, hopen,
                   nclose, wvars, mvars, hsig, closeduse>>

\* ------------------------------------------------------- __init__
\* the variables __init__ leaves alone in all its steps
ctorsame == <<devdlt, mainreal, history, second, nclose, ncap, latepush, pc, rtimeout,
              entry, lastcall, res, sends, lastret, svars, closeduse, intseen>>

\* for s in signals: signal.signal(s, self._sig_handler)
CtorSignals ==
    /\ cpc = "start" /\ hpc = "none"
    /\ cpc' = "attrs"
    /\ UNCHANGED <<running, pktqueue, hopen, wpc, ctorsame>>

\* self._devs ... self._pktqueue = None, self._threads = None, then
\* self.__make_pcaps(): a PcapLiveDevice is opened for each device
CtorMakePcaps ==
    /\ cpc = "attrs" /\ hpc = "none"
    /\ hopen' = [d \in Devs |-> TRUE]
    /\ cpc' = "flag"
    /\ UNCHANGED <<running, pktqueue, wpc, ctorsame>>

\* LLNetReal.running = True
CtorSetRunning ==
    /\ cpc = "flag" /\ hpc = "none"
    /\ running' = TRUE
    /\ cpc' = "queue"
    /\ UNCHANGED <<pktqueue, hopen, wpc, ctorsame>>

\* __spawn_threads: self._threads = []; self._pktqueue = Queue()
CtorMakeQueue ==
    /\ cpc = "queue" /\ hpc = "none"
    /\ pktqueue' = << >>
    /\ cpc' = "threads"
    /\ UNCHANGED <<running, hopen, wpc, ctorsame>>

\* __spawn_threads: t = threading.Thread(...); t.start()
CtorStartThread(d) ==
    /\ cpc = "threads" /\ hpc = "none"
    /\ wpc[d] = "new"
    /\ wpc' = [wpc EXCEPT ![d] = "while"]
    /\ UNCHANGED <<running, pktqueue, hopen, cpc, ctorsame>>

\* every thread is started: __init__ returns the facade to the user code
CtorReturn ==
    /\ cpc = "threads" /\ hpc = "none"
    /\ \A d \in Devs : wpc[d] # "new"
    /\ cpc' = "done"
    /\ UNCHANGED <<running, pktqueue, hopen, wpc, ctorsame>>

\* ------------------------------------------- a second LLNetReal
\* the variables the second facade leaves alone in all its steps: the first
\* facade's queue, devices and threads, and the signal handler
secondsame == <<pktqueue, devdlt, mainreal, history, hopen, nclose, wvars, rtimeout,
                entry, sends, lastret, svars, closeduse, intseen, cpc>>

\* the user code constructs a second LLNetReal (on one device): its device is
\* opened, LLNetReal.running = True, its capture thread is started
SecondInit ==
    /\ cpc = "done" /\ pc = "idle" /\ hpc = "none"
    /\ ~second.built
    /\ second' = [built |-> TRUE, hopen |-> TRUE, nclose |-> 0, wpc |-> "while"]
    /\ running' = TRUE
    /\ lastcall' = "second.__init__"
    /\ res' = Returned
    /\ UNCHANGED <<pc, secondsame>>

\* the second facade's capture thread: while LLNetReal.running:
SecondWorkerWhile ==
    /\ second.wpc = "while"
    /\ second' = [second EXCEPT !.wpc = IF running THEN "recv" ELSE "stats"]
    /\ UNCHANGED <<running, pc, lastcall, res, secondsame>>

\* its poll ends (what it captures goes to the second facade's own queue)
SecondWorkerRecv ==
    /\ second.wpc = "recv"
    /\ second' = [second EXCEPT !.wpc = "while"]
    /\ UNCHANGED <<running, pc, lastcall, res, secondsame>>

\* stats = pcapdev.stats(), then the thread ends
SecondWorkerStats ==
    /\ second.wpc = "stats"
    /\ second' = [second EXCEPT !.wpc = "done"]
    /\ UNCHANGED <<running, pc, lastcall, res, secondsame>>

\* the user code calls shutdown() of the second facade:
\* if not LLNetReal.running: return
SecondShutdownCall ==
    /\ cpc = "done" /\ pc = "idle" /\ hpc = "none"
    /\ second.built
    /\ lastcall' = "second.shutdown"
    /\ IF ~running
         THEN /\ res' = Returned
              /\ pc' = "idle"
         ELSE /\ res' = NoResult
              /\ pc' = "sd2_set"
    /\ UNCHANGED <<running, second, secondsame>>

\* LLNetReal.running = False
SecondShutdownSet ==
    /\ pc = "sd2_set" /\ hpc = "none"
    /\ running' = FALSE
    /\ pc' = "sd2_join"
    /\ UNCHANGED <<second, lastcall, res, secondsame>>

\* for t in self._threads: t.join()
SecondShutdownJoin ==
    /\ pc = "sd2_join" /\ hpc = "none"
    /\ second.wpc = "done"
    /\ pc' = "sd2_close"
    /\ UNCHANGED <<running, second, lastcall, res, secondsame>>

\* for devname,pdev in self._pcaps.items(): pdev.close()
SecondShutdownClose ==
    /\ pc = "sd2_close" /\ hpc = "none"
    /\ second' = [second EXCEPT !.hopen = FALSE,
                                !.nclose = IF @ < 2 THEN @ + 1 ELSE 2]
    /\ pc' = "idle"
    /\ res' = Returned
    /\ UNCHANGED <<running, lastcall, secondsame>>

\* ------------------------------------------------------ main_real
\* the variables main_real's own steps leave alone
mainsame == <<running, pktqueue, devdlt, history, cpc, second, hopen, nclose,
              wvars, rtimeout, entry, sends, lastret, svars, closeduse,
              intseen>>

\* usercode_entry_point = import_or_die(...); if options.dryrun:
MainImport ==
    /\ mainreal.pc = "start" /\ hpc = "none"
    /\ \E dryrun \in BOOLEAN :
         mainreal' = [mainreal EXCEPT
                        !.pc = IF dryrun THEN "dryrun" ELSE "usercode",
                        !.path = IF dryrun THEN "dryrun" ELSE "none"]
    /\ UNCHANGED <<pc, lastcall, res, mainsame>>

\* usercode_entry_point(netobj) returns: the else clause is next
UserReturn ==
    /\ mainreal.pc = "usercode" /\ pc = "idle" /\ hpc = "none"
    /\ mainreal' = [mainreal EXCEPT !.pc = "else", !.path = "normal"]
    /\ UNCHANGED <<pc, lastcall, res, mainsame>>

\* usercode_entry_point(netobj) raises an Exception: except Exception as e
UserRaise ==
    /\ mainreal.pc = "usercode" /\ pc = "idle" /\ hpc = "none"
    /\ mainreal' = [mainreal EXCEPT !.pc = "except"]
    /\ UNCHANGED <<pc, lastcall, res, mainsame>>

\* the except clause: the failure is printed; if options.nohandle: raise;
\* if not options.nopdb: pdb.post_mortem(); the clause has no shutdown()
MainExcept ==
    /\ mainreal.pc = "except" /\ hpc = "none"
    /\ \E nohandle, nopdb \in BOOLEAN :
         mainreal' = [mainreal EXCEPT
                        !.pc = IF nohandle THEN "raised"
                               ELSE IF ~nopdb THEN "pdb" ELSE "returned",
                        !.path = IF nohandle THEN "nohandle"
                                 ELSE IF ~nopdb THEN "pdb" ELSE "nopdb"]
    /\ UNCHANGED <<pc, lastcall, res, mainsame>>

\* pdb.post_mortem() returns; main_real ends
MainPdb ==
    /\ mainreal.pc = "pdb" /\ hpc = "none"
    /\ mainreal' = [mainreal EXCEPT !.pc = "returned"]
    /\ UNCHANGED <<pc, lastcall, res, mainsame>>

\* netobj.shutdown() of the dry run and of the else clause: the call and
\* shutdown()'s test of the flag
MainShutdownCall ==
    /\ mainreal.pc \in {"dryrun", "else"}
    /\ cpc = "done" /\ pc = "idle" /\ hpc = "none"
    /\ mainreal' = [mainreal EXCEPT !.pc = "shutdown", !.nshutdown = @ + 1]
    /\ lastcall' = "shutdown"
    /\ IF ~running
         THEN /\ res' = Returned
              /\ pc' = "idle"
         ELSE /\ res' = NoResult
              /\ pc' = "sd_set"
    /\ UNCHANGED mainsame

\* that shutdown() has returned: main_real returns
MainReturn ==
    /\ mainreal.pc = "shutdown" /\ pc = "idle" /\ hpc = "none"
    /\ mainreal' = [mainreal EXCEPT !.pc = "returned"]
    /\ UNCHANGED <<pc, lastcall, res, mainsame>>

\* ---------------------------------------------------- specification
\* a step of the call the main thread is in
MainStep ==
    \/ RecvGet \/ RecvTimeout \/ RecvFlag \/ RecvExcept
    \/ ShutdownSet \/ ShutdownJoin \/ ShutdownClose

\* a step of the signal handler
HandlerStep == HandlerEntry \/ HandlerQsize \/ HandlerPut

Next ==
    \/ \E d \in Devs : WorkerWhile(d)
    \/ \E d \in Devs : WorkerRecvNone(d)
    \/ \E d \in Devs : WorkerRecvPut(d)
    \/ \E d \in Devs : WorkerStats(d)
    \/ \E t \in Timeouts : RecvCall(t)
    \/ RecvGet
    \/ RecvTimeout
    \/ RecvFlag
    \/ RecvExcept
    \/ \E dev \in DevRefs, packet \in PacketArgs : SendPacket(dev, packet)
    \/ ShutdownCall
    \/ ShutdownSet
    \/ ShutdownJoin
    \/ ShutdownClose
    \/ \E sig \in IntTermSignals : Signal(sig)
    \/ HandlerEntry
    \/ HandlerQsize
    \/ HandlerPut

Spec == Init /\ [][Next]_vars

\* the same program, with the histories lastret and latepush kept
HistInit ==
    /\ running = TRUE
    /\ pktqueue = << >>
    /\ devdlt \in DevDlts
    /\ hopen = [d \in Devs |-> TRUE]
    /\ nclose = [d \in Devs |-> 0]
    /\ wpc = [d \in Devs |-> "while"]
    /\ ncap = [d \in Devs |-> 0]
    /\ pc = "idle"
    /\ rtimeout = None
    /\ entry = NoEntry
    /\ hpc = "none"
    /\ hsig = None
    /\ intseen = "no"
    /\ lastcall = "none"
    /\ res = NoResult
    /\ closeduse = {}
    /\ sends = << >>
    /\ cpc = "done"
    /\ mainreal = NoMainReal
    /\ second = NoSecond
    /\ history = TRUE
    /\ lastret = [d \in Devs |-> 0]
    /\ latepush = [d \in Devs |-> 0]

HistSpec == HistInit /\ [][Next]_vars

\* the program from the call of LLNetReal(...) on: no handler is registered,
\* no device opened, no thread made, and the class has no flag that is true
CtorInit ==
    /\ running = FALSE
    /\ pktqueue = << >>
    /\ devdlt \in DevDlts
    /\ hopen = [d \in Devs |-> FALSE]
    /\ nclose = [d \in Devs |-> 0]
    /\ wpc = [d \in Devs |-> "new"]
    /\ ncap = [d \in Devs |-> 0]
    /\ pc = "idle"
    /\ rtimeout = None
    /\ entry = NoEntry
    /\ hpc = "none"
    /\ hsig = None
    /\ intseen = "no"
    /\ lastcall = "none"
    /\ res = NoResult
    /\ closeduse = {}
    /\ sends = << >>
    /\ cpc = "start"
    /\ mainreal = NoMainReal
    /\ second = NoSecond
    /\ history = FALSE
    /\ lastret = [d \in Devs |-> 0]
    /\ latepush = [d \in Devs |-> 0]

CtorNext ==
    \/ CtorSignals
    \/ CtorMakePcaps
    \/ CtorSetRunning
    \/ CtorMakeQueue
    \/ \E d \in Devs : CtorStartThread(d)
    \/ CtorReturn
    \/ Next

CtorSpec == CtorInit /\ [][CtorNext]_vars

\* the program with a second LLNetReal constructed at some time after the
\* first; no signal is delivered (the handler would be the second facade's)
TwoNext ==
    \/ \E d \in Devs : WorkerWhile(d)
    \/ \E d \in Devs : WorkerRecvNone(d)
    \/ \E d \in Devs : WorkerRecvPut(d)
    \/ \E d \in Devs : WorkerStats(d)
    \/ \E t \in Timeouts : RecvCall(t)
    \/ RecvGet
    \/ RecvTimeout
    \/ RecvFlag
    \/ RecvExcept
    \/ ShutdownCall
    \/ ShutdownSet
    \/ ShutdownJoin
    \/ ShutdownClose
    \/ SecondInit
    \/ SecondWorkerWhile
    \/ SecondWorkerRecv
    \/ SecondWorkerStats
    \/ SecondShutdownCall
    \/ SecondShutdownSet
    \/ SecondShutdownJoin
    \/ SecondShutdownClose

TwoSpec == Init /\ [][TwoNext]_vars

\* the program run by main_real(usercode, netobj, options): the facade is
\* constructed, the user code has not started
MainInit ==
    /\ running = TRUE
    /\ pktqueue = << >>
    /\ devdlt \in DevDlts
    /\ hopen = [d \in Devs |-> TRUE]
    /\ nclose = [d \in Devs |-> 0]
    /\ wpc = [d \in Devs |-> "while"]
    /\ ncap = [d \in Devs |-> 0]
    /\ pc = "idle"
    /\ rtimeout = None
    /\ entry = NoEntry
    /\ hpc = "none"
    /\ hsig = None
    /\ intseen = "no"
    /\ lastcall = "none"
    /\ res = NoResult
    /\ closeduse = {}
    /\ sends = << >>
    /\ cpc = "done"
    /\ mainreal = [pc |-> "start", path |-> "none", nshutdown |-> 0]
    /\ second = NoSecond
    /\ history = FALSE
    /\ lastret = [d \in Devs |-> 0]
    /\ latepush = [d \in Devs |-> 0]

\* the calls of the facade are the user code's, made while it runs (its
\* recv_packet and shutdown calls; send_packet has no part in how main_real
\* ends)
MainNext ==
    \/ \E d \in Devs : WorkerWhile(d)
    \/ \E d \in Devs : WorkerRecvNone(d)
    \/ \E d \in Devs : WorkerRecvPut(d)
    \/ \E d \in Devs : WorkerStats(d)
    \/ mainreal.pc = "usercode" /\ \E t \in Timeouts : RecvCall(t)
    \/ RecvGet
    \/ RecvTimeout
    \/ RecvFlag
    \/ RecvExcept
    \/ mainreal.pc = "usercode" /\ ShutdownCall
    \/ ShutdownSet
    \/ ShutdownJoin
    \/ ShutdownClose
    \/ \E sig \in IntTermSignals : Signal(sig)
    \/ HandlerEntry
    \/ HandlerQsize
    \/ HandlerPut
    \/ MainImport
    \/ UserReturn
    \/ UserRaise
    \/ MainExcept
    \/ MainPdb
    \/ MainShutdownCall
    \/ MainReturn

MainSpec == MainInit /\ [][MainNext]_vars

\* Scheduling: every thread that can run does run (the capture threads, a
\* started signal handler), and the main thread goes on with its call each
\* time a handler has returned, however many signals arrive (strong fairness:
\* handlers only suspend it).  What the user code calls next, whether a signal
\* arrives and whether a frame arrives are up to the environment.
FairSpec ==
    /\ Spec
    /\ \A d \in Devs : WF_vars(Worker(d))
    /\ SF_vars(MainStep)
    /\ WF_vars(HandlerStep)

TypeOK ==
    /\ running \in BOOLEAN
    /\ devdlt \in [Devs -> Dlts]
    /\ hopen \in [Devs -> BOOLEAN]
    /\ nclose \in [Devs -> 0..2]
    /\ wpc \in [Devs -> {"new", "while", "recv", "stats", "done"}]
    /\ ncap \in [Devs -> 0..MaxCap]
    /\ pc \in {"idle", "get", "flag", "except", "sd_set", "sd_join", "sd_close",
              "sd2_set", "sd2_join", "sd2_close"}
    /\ hpc \in {"none", "entry", "qsize", "put"}
    /\ hsig \in RegisteredSignals \cup {None}
    /\ sends \in {<< >>} \cup {<<d>> : d \in Devs}
    /\ cpc \in {"start", "attrs", "flag", "queue", "threads", "done", "failed"}
    /\ mainreal \in [pc : {"off", "start", "dryrun", "usercode", "except", "pdb",
                           "else", "shutdown", "returned", "raised"},
                     path : {"none", "dryrun", "normal", "nohandle", "nopdb",
                             "pdb"},
                     nshutdown : 0..2]
    /\ second \in [built : BOOLEAN, hopen : BOOLEAN, nclose : 0..2,
                    wpc : {"new", "while", "recv", "stats", "done"}]
    /\ history \in BOOLEAN
    /\ lastret \in [Devs -> 0..MaxCap]
    /\ latepush \in [Devs -> 0..MaxCap]

\* ------------------------------------------------------------ claims
\* the last call the user code made was shutdown() and it has returned
ShutdownReturned == pc = "idle" /\ lastcall = "shutdown" /\ res = Returned

\* shutdown() got as far as clearing the flag
ShutdownBegun == pc \in {"sd_join", "sd_close"} \/ \E d \in Devs : nclose[d] > 0

\* C1: whenever a call of shutdown() has returned, every capture thread has
\* ended and every pcap device is closed (also after a handled SIGINT).
C1_ShutdownCleansUp ==
    ShutdownReturned =>
        \A d \in Devs : ~Alive(d) /\ ~hopen[d]

\* C2: a recv_packet call made once shutdown() has cleared the flag raises
\* Shutdown in the end, also with no timeout and an empty queue.
C2_RecvRaisesAfterShutdown ==
    [](  (pc = "get" /\ ShutdownBegun)
      => <>(pc = "idle" /\ lastcall = "recv_packet" /\ res = Raised("Shutdown")))

\* C3: a device is closed only by shutdown() and only once every capture
\* thread has ended: no device is closed while a thread is alive, the step
\* that closes a device is the closing step of shutdown() taken with all
\* threads ended, and no step of a capture thread closes a device.
C3_CloseOnlyAfterJoin ==
    /\ [](\A d \in Devs : ~hopen[d] => \A e \in Devs : ~Alive(e))
    /\ [][ (hopen' # hopen) =>
              /\ pc = "sd_close" /\ lastcall = "shutdown" /\ pc' = "idle"
              /\ \A e \in Devs : ~Alive(e)
              /\ wpc' = wpc ]_vars
    /\ [][ (wpc' # wpc) => (hopen' = hopen /\ nclose' = nclose) ]_vars

\* C3 witness: shutdown() has closed the devices after threads that captured
\* frames have ended
C3_Witness ==
    /\ ShutdownReturned
    /\ \A d \in Devs : ~hopen[d] /\ nclose[d] = 1 /\ ~Alive(d)
    /\ Captured > 0

\* C4: no operation (a capture thread's recv_packet or stats, send_packet's
\* send) is ever invoked on a device after its close().
C4_NoUseAfterClose == closeduse = {}

\* C5: a second shutdown() right after a shutdown() that ran on a running
\* facade raises nothing and changes no state (no join, no close), and after
\* it every device has been closed exactly once and the flag is false.
C5_ShutdownIdempotent ==
    [][ (ShutdownCall /\ ShutdownReturned /\ \A d \in Devs : nclose[d] > 0) =>
           /\ pc' = "idle" /\ res' = Returned
           /\ UNCHANGED <<running, pktqueue, hopen, nclose, wvars, closeduse,
                          sends, lastret>>
           /\ \A d \in Devs : nclose'[d] = 1 /\ ~hopen'[d]
           /\ ~running' ]_vars

\* C5 witness: the state two shutdown() calls in a row leave (the second
\* call changes nothing, so it is the state the first one left)
C5_Witness ==
    /\ ShutdownReturned
    /\ \A d \in Devs : nclose[d] = 1 /\ ~hopen[d]
    /\ ~running

\* the dummy entries in a queue
RECURSIVE Sentinels(_)
Sentinels(q) ==
    IF q = << >> THEN 0
    ELSE (IF Head(q) = Sentinel THEN 1 ELSE 0) + Sentinels(Tail(q))

\* the last call the user code made was recv_packet and it raised Shutdown
RecvRaisedShutdown ==
    pc = "idle" /\ lastcall = "recv_packet" /\ res = Raised("Shutdown")

\* C6: a dummy entry the handler put on the empty queue is taken off by one
\* recv_packet call, which raises Shutdown; a recv_packet blocked with no
\* timeout when SIGINT arrives is released with Shutdown in the end; and no
\* ReceivedPacket is ever built from the dummy entry.
C6_SentinelReleasesConsumer ==
    /\ [][ (hpc = "put" /\ hpc' = "none") =>
              (~running /\ Sentinels(pktqueue') = Sentinels(pktqueue) + 1) ]_vars
    /\ [][ (pc = "get" /\ pc' = "flag" /\ entry' = Sentinel) =>
              Sentinels(pktqueue') = Sentinels(pktqueue) - 1 ]_vars
    /\ [][ (pc = "flag" /\ entry = Sentinel /\ pc' # "flag") =>
              (pc' = "idle" /\ res' = Raised("Shutdown")) ]_vars
    /\ [][ (res' # res /\ res'.kind = "ReceivedPacket") =>
              (entry # Sentinel /\ res'.ingress_dev \in Devs) ]_vars
    /\ [](  (pc = "get" /\ rtimeout = None /\ hpc = "entry" /\ hsig = "SIGINT")
         => <>RecvRaisedShutdown)

\* C6 witness: a recv_packet with no timeout has taken the dummy entry off
\* the queue
C6_Witness == pc = "flag" /\ entry = Sentinel /\ rtimeout = None /\ ~running

\* C7: handling SIGINT clears the flag and puts exactly one dummy entry on
\* the queue if the queue is empty at the check and nothing otherwise; and
\* the next recv_packet called with no timeout after the handler has run
\* raises Shutdown in the end.
C7_NextRecvRaisesShutdown ==
    /\ [][ (hpc = "entry" /\ hsig = "SIGINT" /\ hpc' # "entry") =>
              (~running' /\ hpc' = "qsize" /\ pktqueue' = pktqueue) ]_vars
    /\ [][ (hpc = "qsize" /\ hpc' # "qsize") =>
              /\ pktqueue' = pktqueue
              /\ hpc' = IF pktqueue = << >> THEN "put" ELSE "none" ]_vars
    /\ [][ (hpc = "put" /\ hpc' # "put") =>
              (pktqueue' = Append(pktqueue, Sentinel) /\ hpc' = "none") ]_vars
    /\ [](  (pc = "get" /\ rtimeout = None /\ intseen = "next")
         => <>RecvRaisedShutdown)

\* C8 as claimed: the handler run for an interrupt or termination signal it
\* is registered for leaves the flag false.
C8_IntTermSignalsClearFlag ==
    [][ (hpc = "entry" /\ hsig \in IntTermSignals /\ hpc' # "entry")
          => ~running' ]_vars

\* C8 amended: of the signals the handler is registered for only SIGINT
\* clears the flag (and goes on to the queue test that may put the dummy
\* entry); for SIGTERM, SIGHUP, SIGUSR1 and SIGUSR2 the handler returns with
\* the flag and the queue as they were.
C8_OnlySigintClearsFlag ==
    /\ [][ (hpc = "entry" /\ hpc' # "entry") =>
              IF hsig = "SIGINT"
                THEN ~running' /\ hpc' = "qsize"
                ELSE running' = running /\ pktqueue' = pktqueue /\ hpc' = "none"
       ]_vars
    /\ [][ (hpc' = "put" /\ hpc # "put") => (hpc = "qsize" /\ ~running) ]_vars
    /\ [](hpc = "entry" => hsig \in RegisteredSignals)

\* C8 witness: the handler has been started for SIGTERM with the flag true
C8_Witness == hpc = "entry" /\ hsig = "SIGTERM" /\ running

\* C9: when the get of recv_packet times out the call raises Shutdown if the
\* flag is false at the check and NoPackets if it is true; NoPackets is
\* raised in no other situation; a get that timed out returns no packet.
C9_TimeoutRaises ==
    /\ [][ (pc = "get" /\ pc' = "except") =>
              (pktqueue = << >> /\ rtimeout # None) ]_vars
    /\ [][ (pc = "except" /\ pc' # "except") =>
              /\ pc' = "idle"
              /\ res' = IF running THEN Raised("NoPackets")
                                   ELSE Raised("Shutdown") ]_vars
    /\ [][ (res' # res /\ res'.kind = "NoPackets") =>
              (pc = "except" /\ running /\ lastcall = "recv_packet") ]_vars

\* C9 witness: a recv_packet with a timeout raised NoPackets
C9_Witness ==
    pc = "idle" /\ lastcall = "recv_packet" /\ res = Raised("NoPackets")

\* C10 as claimed: after a successful get, recv_packet raises Shutdown only
\* when the entry is the dummy one and the flag is false, and an entry that
\* is not the dummy one and whose link type has a decoder is decoded and
\* returned as (timestamp, ingress device, decoded packet).
C10_ShutdownOnlyOnSentinel ==
    [][ (pc = "flag" /\ pc' # "flag") =>
           /\ (res' = Raised("Shutdown") => (entry = Sentinel /\ ~running))
           /\ (entry # Sentinel /\ HasDecoder(entry.dlt)) =>
                 /\ pc' = "idle"
                 /\ res' = ReceivedPacket(Timestamp(entry.pktinfo), entry.dev,
                              Decode(entry.dlt, Raw(entry.pktinfo))) ]_vars

\* C10 amended: after a successful get, recv_packet raises Shutdown exactly
\* when the flag is false at the check, whatever the entry is; an entry that
\* is not the dummy one and whose link type has a decoder is decoded and
\* returned as (timestamp, ingress device, decoded packet) when the flag is
\* true at the check.
C10_ShutdownOnFlag ==
    [][ (pc = "flag" /\ pc' # "flag") =>
           /\ (res' = Raised("Shutdown") <=> ~running)
           /\ (running /\ entry # Sentinel /\ HasDecoder(entry.dlt)) =>
                 /\ pc' = "idle"
                 /\ res' = ReceivedPacket(Timestamp(entry.pktinfo), entry.dev,
                              Decode(entry.dlt, Raw(entry.pktinfo))) ]_vars

\* C10 witness: recv_packet has taken a captured frame with a decoder off the
\* queue and the flag is false
C10_Witness ==
    /\ pc = "flag" /\ entry # Sentinel /\ HasDecoder(entry.dlt)
    /\ entry.dev \in Devs /\ ~running

\* a ReceivedPacket has a configured ingress device and was decoded by the
\* decoder registered for that device's link type
WellDecoded(r) ==
    /\ r.ingress_dev \in Devs
    /\ HasDecoder(devdlt[r.ingress_dev])
    /\ r.packet # << >>
    /\ r.packet[1] = dlt_to_decoder[devdlt[r.ingress_dev]]

\* C11 as claimed: recv_packet never returns a packet whose ingress device
\* is not configured or whose link type has no decoder; an entry with no
\* decoder is skipped: nothing is raised, the call stays in progress and goes
\* back to the get. (Stated for captured frames; the sentinel is C10's.)
C11_UndecodableSkipped ==
    /\ [](res.kind = "ReceivedPacket" => WellDecoded(res))
    /\ [][ (pc = "flag" /\ entry.dev \in Devs /\ ~HasDecoder(entry.dlt)
             /\ pc' # "flag") =>
              (pc' = "get" /\ res' = res /\ rtimeout' = rtimeout) ]_vars

\* C11 amended: recv_packet never returns a packet whose ingress device is
\* not configured or whose link type has no decoder; an entry with no decoder
\* popped while the flag is true at the check is skipped (nothing raised, the
\* call goes back to the get with the same timeout); popped while the flag
\* is false it is dropped and Shutdown is raised.
C11_UndecodableSkippedWhileRunning ==
    /\ [](res.kind = "ReceivedPacket" => WellDecoded(res))
    /\ [][ (pc = "flag" /\ ~HasDecoder(entry.dlt) /\ pc' # "flag") =>
              IF running
                THEN pc' = "get" /\ res' = res /\ rtimeout' = rtimeout
                ELSE pc' = "idle" /\ res' = Raised("Shutdown") ]_vars

\* C11 witness: recv_packet has popped a captured frame whose link type has
\* no decoder, with the flag true
C11_Witness ==
    /\ pc = "flag" /\ entry.dev \in Devs /\ ~HasDecoder(entry.dlt) /\ running

\* the failures of send_packet: the device is not recognized; the packet is
\* None or not a Packet
UnknownDeviceError == Raised("SwitchyException: Unrecognized device name")
InvalidPacketError(packet) ==
    IF packet = None THEN Raised("SwitchyException: No packet object")
                     ELSE Raised("SwitchyException: not a Packet")

\* C12: send_packet with a device name that no pcap device is registered
\* under fails with the unrecognized-device error whatever the packet argument
\* is (a Packet, None, something else), and sends on no device.
C12_UnknownDeviceFails ==
    [][ \A packet \in PacketArgs :
          SendPacket(StrRef(BadDev), packet) =>
            /\ lastcall' = "send_packet"
            /\ res' = UnknownDeviceError
            /\ sends' = << >>
            /\ closeduse' = closeduse ]_vars

\* C12 witness: a send_packet call has failed with the unrecognized-device
\* error
C12_Witness ==
    lastcall = "send_packet" /\ res = UnknownDeviceError /\ sends = << >>

\* C13 as claimed: send_packet with None or a non-packet for the packet fails
\* with the invalid-packet error whatever the device argument is (registered
\* or not), and sends on no device.
C13_InvalidPacketFails ==
    [][ \A dev \in DevRefs, packet \in PacketArgs \ {"Packet"} :
          SendPacket(dev, packet) =>
            (res' = InvalidPacketError(packet) /\ sends' = << >>) ]_vars

\* C13 amended: send_packet with None or a non-packet for the packet sends on
\* no device and fails: with the invalid-packet error when the device
\* argument names a registered device, with the unrecognized-device error
\* when it does not (the device is tested first).
C13_InvalidPacketFailsDeviceFirst ==
    [][ \A dev \in DevRefs, packet \in PacketArgs \ {"Packet"} :
          SendPacket(dev, packet) =>
            /\ sends' = << >>
            /\ closeduse' = closeduse
            /\ res' = IF DevName(dev) \in Devs
                        THEN InvalidPacketError(packet)
                        ELSE UnknownDeviceError ]_vars

\* C13 witness: a send_packet call has failed because its packet argument
\* was not a Packet
C13_Witness ==
    /\ lastcall = "send_packet" /\ sends = << >>
    /\ res = InvalidPacketError("bytes")

\* C17: send_packet with a registered device (by name, number or Interface)
\* and a Packet invokes the send of that device once and of no other device,
\* whether that send returns or raises, and changes neither the running
\* flag, the queue, a capture thread nor a device; it does so whatever the
\* running flag is.
C17_OneSendNoOtherEffect ==
    [][ \A dev \in DevRefs :
          (DevName(dev) \in Devs /\ SendPacket(dev, "Packet")) =>
            /\ sends' = <<DevName(dev)>>
            /\ res' \in {Returned, Raised("PcapException")}
            /\ UNCHANGED <<running, pktqueue, wpc, ncap, hopen, nclose,
                           devdlt, mainreal, history, cpc, second, pc, entry,
                           hpc, lastret, latepush>> ]_vars

\* C17 witness: a send_packet call has sent on one device, after the flag was
\* cleared and with a capture thread still alive, and the send raised
C17_Witness ==
    /\ lastcall = "send_packet" /\ Len(sends) = 1
    /\ res = Raised("PcapException")
    /\ ~running /\ \E d \in Devs : Alive(d)

\* C14: the frames of one device that recv_packet returns are returned in the
\* order they were captured (the timestamp of a returned frame is later than
\* that of every frame of the same device returned before); frames of
\* different devices are not compared.
C14_PerDeviceOrder ==
    [][ (pc = "flag" /\ pc' = "idle" /\ res'.kind = "ReceivedPacket") =>
          /\ res'.timestamp > lastret[res'.ingress_dev]
          /\ lastret'[res'.ingress_dev] = res'.timestamp ]_vars

\* C14 witness: two frames of one device have been returned, the second
\* captured one last
C14_Witness ==
    \E d \in Devs :
        /\ lastret[d] = 2 /\ res.kind = "ReceivedPacket" /\ res.ingress_dev = d
        /\ res.timestamp = 2

\* C18: once the flag is false, a capture thread puts at most one more entry
\* on the queue before it ends, so the entries put after the flag was cleared
\* are at most as many as the devices.
C18_AtMostOneLatePush ==
    /\ \A d \in Devs : latepush[d] <= 1
    /\ SumOver(latepush, Devs) <= Cardinality(Devs)
    /\ \A d \in Devs : latepush[d] > 0 => ~running

\* C18 witness: a capture thread has put an entry after the flag was cleared
\* and has then run to its end
C18_Witness ==
    \E d \in Devs : latepush[d] = 1 /\ ~Alive(d)

\* C15: if the running flag is false and stays false, every capture thread
\* ends (no thread stays alive for ever under a flag that stays false), and
\* a shutdown() that has cleared the flag does not stay in its joins or its
\* closes for ever: it returns, every thread ended (threads scheduled fairly,
\* every poll ending).
C15_CancellationTerminates ==
    /\ []<>(running \/ \A d \in Devs : ~Alive(d))
    /\ []<>(pc \notin {"sd_join", "sd_close"})
    /\ [][ (pc \in {"sd_join", "sd_close"} /\ pc' \notin {"sd_join", "sd_close"})
             => (ShutdownReturned' /\ \A d \in Devs : ~Alive(d)') ]_vars

\* C15 witness: a shutdown() that cleared the flag has returned, every
\* capture thread ended and every device closed once, entries still queued
C15_Witness ==
    /\ ShutdownReturned /\ nclose = [d \in Devs |-> 1]
    /\ \A d \in Devs : ~Alive(d)
    /\ pktqueue # << >>

\* the entries of the queue that are captured frames
Frames(q) == {i \in 1..Len(q) : q[i].dev \in Devs}

\* C16: while the flag is true no frame is lost or duplicated.  The queue
\* changes only by a put at its tail or by recv_packet's get, which takes the
\* head entry off the queue; no frame is on the queue twice or on the queue
\* and in recv_packet's hands; a frame with a decoder popped while the flag
\* is true is returned by that call with its timestamp and device name; and a
\* recv_packet in progress does not wait for ever in front of a decodable
\* head entry while the flag stays true.
C16_NoLossNoDuplicate ==
    /\ [][ pktqueue' # pktqueue =>
             \/ /\ pc = "get" /\ pc' = "flag"
                /\ pktqueue' = Tail(pktqueue)
             \/ /\ Len(pktqueue') = Len(pktqueue) + 1
                /\ SubSeq(pktqueue', 1, Len(pktqueue)) = pktqueue ]_vars
    /\ [][ (pc = "get" /\ pc' = "flag") =>
             (entry' = Head(pktqueue) /\ pktqueue' = Tail(pktqueue)) ]_vars
    /\ [](\A i, j \in Frames(pktqueue) : pktqueue[i] = pktqueue[j] => i = j)
    /\ [](\A i \in Frames(pktqueue) : pktqueue[i] # entry)
    /\ [][ (pc = "flag" /\ pc' # "flag" /\ running /\ HasDecoder(entry.dlt)) =>
             /\ pc' = "idle"
             /\ res' = ReceivedPacket(Timestamp(entry.pktinfo), entry.dev,
                                      Decode(entry.dlt, Raw(entry.pktinfo)))
             /\ entry' = NoEntry ]_vars
    /\ []<>~(/\ pc = "get" /\ running /\ pktqueue # << >>
             /\ HasDecoder(Head(pktqueue).dlt))

\* C16 witness: with the flag true recv_packet has returned the second frame
\* captured on a device and the queue is drained
C16_Witness ==
    /\ running /\ pc = "idle" /\ res.kind = "ReceivedPacket"
    /\ res.timestamp = 2
    /\ pktqueue = << >>

\* C19: a SIGINT delivered at any moment after __init__ registered the
\* handlers takes effect: the handler does not fail, it clears the running
\* flag, and the flag is false from then on (only __init__ sets it, and not
\* after a handled SIGINT).
C19_InterruptAlwaysTakesEffect ==
    /\ [](cpc # "failed")
    /\ [][ (hpc = "entry" /\ hsig = "SIGINT" /\ hpc' # "entry") => ~running' ]_vars
    /\ [][ (~running /\ running') => (cpc = "flag" /\ intseen = "no") ]_vars

\* C20: two facades are independent as to shutdown.  The capture threads of
\* a facade leave their loops only when that facade's own shutdown() has
\* cleared the flag (not when the other facade is shut down or constructed),
\* and a shutdown() of either facade that has returned has joined that
\* facade's threads and closed that facade's devices.
C20_FacadesIndependent ==
    /\ [][ (second.wpc = "while" /\ second'.wpc = "stats") =>
             pc = "sd2_join" ]_vars
    /\ [][ \A d \in Devs : (wpc[d] = "while" /\ wpc'[d] = "stats") =>
             pc = "sd_join" ]_vars
    /\ []( (pc = "idle" /\ lastcall = "second.shutdown" /\ res = Returned) =>
             (second.wpc = "done" /\ ~second.hopen) )
    /\ []( ShutdownReturned => \A d \in Devs : ~Alive(d) /\ ~hopen[d] )

\* main_real has finished, by returning or by raising
MainFinished == mainreal.pc \in {"returned", "raised"}

\* C21: by whichever path main_real finishes (dry run, the user code
\* returning, the user code raising, with or without nohandle and nopdb), it
\* has called netobj.shutdown() exactly once, and no capture thread is alive
\* when it ends.
C21_MainRealShutsDownOnce ==
    MainFinished =>
        /\ mainreal.nshutdown = 1
        /\ \A d \in Devs : ~Alive(d)

====
